---- MODULE Spec2Model ----
(***************************************************************************)
(* Model of the /chat handler of voice_api.py and of the process-wide      *)
(* SESSIONS dictionary it reads and writes.                                *)
(*                                                                         *)
(* Python lists are objects: SESSIONS maps a session id to a REFERENCE to  *)
(* a list, and the handler's local `history` is a reference too.  The      *)
(* model therefore keeps a heap of list objects, so that list.append on a  *)
(* list that is also held by SESSIONS is visible through SESSIONS, while a *)
(* slice history[-k:] is a new list object.                                *)
(*                                                                         *)
(* The handler is a plain `def`, which FastAPI runs in a thread pool:      *)
(* several requests can be in flight, interleaving between statements.     *)
(***************************************************************************)
EXTENDS Integers, Sequences, FiniteSets, TLC

\* ---- program constants and input domains --------------------------------
\* MAX_TURNS is 10 in the source (line 27); the model scales it down, which
\* keeps the window 2*MAX_TURNS+1 and every slice expression as in the code
MAX_TURNS == 2

\* the number of requests a behaviour accepts
MaxRequests == 3

Procs == {1, 2}

SessionIds == {"s1", "s2"}

Texts == {"hi", "bye"}

Replies == {"R1", "R2"}

Window == 2 * MAX_TURNS + 1

None == 0

NumRefs == Cardinality(SessionIds) + Cardinality(Procs) + 1

Refs == 1 .. NumRefs

\* the content of a heap slot that holds no list object
Free == <<[role |-> "free", content |-> "", by |-> ""]>>

SYSTEM_PROMPT == "SYSTEM_PROMPT"

VARIABLES SESSIONS, heap, pc, inp, history, messages, reply, base, log

vars == <<SESSIONS, heap, pc, inp, history, messages, reply, base, log>>

\* ---- messages and list operations ---------------------------------------
\* A message dict; `by` is a history field naming the session whose request
\* created the message (it is not read by any action).
Msg(r, c, s) == [role |-> r, content |-> c, by |-> s]

SystemMsg(s) == Msg("system", SYSTEM_PROMPT, s)

UserMsg(t, s) == Msg("user", t, s)

AssistantMsg(r, s) == Msg("assistant", r, s)

\* l[-n:] for n > 0: the last n elements, the whole list when it is shorter
LastN(l, n) == IF Len(l) <= n THEN l ELSE SubSeq(l, Len(l) - n + 1, Len(l))

\* Python truthiness of the value returned by SESSIONS.get: None and [] are falsy
Falsy(h, r) == r = None \/ h[r] = <<>>

\* the list object a fresh allocation gets: the lowest unused reference
NewRef(h) == CHOOSE r \in Refs : h[r] = Free /\ \A q \in Refs : q < r => h[q] # Free

\* reference counting: a list no dict entry and no local variable refers to is gone
Collect(h, sess, loc) ==
    [r \in Refs |-> IF (\E s \in SessionIds : sess[s] = r) \/ (\E p \in Procs : loc[p] = r)
                    THEN h[r] ELSE Free]

\* the list stored for a session, <<>> when the key is absent
Stored(s) == IF SESSIONS[s] = None THEN <<>> ELSE heap[SESSIONS[s]]

NoInp == [session_id |-> "", text |-> ""]

InFlight == {p \in Procs : pc[p] # "idle"}

Quiescent == InFlight = {}

\* ---- initial state ------------------------------------------------------
Init ==
    /\ SESSIONS = [s \in SessionIds |-> None]
    /\ heap = [r \in Refs |-> Free]
    /\ pc = [p \in Procs |-> "idle"]
    /\ inp = [p \in Procs |-> NoInp]
    /\ history = [p \in Procs |-> None]
    /\ messages = [p \in Procs |-> <<>>]
    /\ reply = [p \in Procs |-> ""]
    /\ base = [p \in Procs |-> <<>>]
    /\ log = <<>>

\* ---- the /chat handler, statement by statement --------------------------
\* a lookup that seeds a new history with an empty list instead of [system]
GetHistory_Unseeded(p, sid) ==
    IF Falsy(heap, SESSIONS[sid])
    THEN LET r == NewRef(heap) IN
         /\ history' = [history EXCEPT ![p] = r]
         /\ heap' = [heap EXCEPT ![r] = <<>>]
    ELSE /\ history' = [history EXCEPT ![p] = SESSIONS[sid]]
         /\ heap' = heap

\* a lookup that, for an absent key, hands out a list object that is already in
\* use (a shared default list) instead of building a new one
GetHistory_SharedList(p, sid) ==
    IF Falsy(heap, SESSIONS[sid])
    THEN IF \E r \in Refs : heap[r] # Free
         THEN /\ history' = [history EXCEPT ![p] = CHOOSE r \in Refs : heap[r] # Free]
              /\ heap' = heap
         ELSE LET r == NewRef(heap) IN
              /\ history' = [history EXCEPT ![p] = r]
              /\ heap' = [heap EXCEPT ![r] = <<SystemMsg(sid)>>]
    ELSE /\ history' = [history EXCEPT ![p] = SESSIONS[sid]]
         /\ heap' = heap

\* lines 83-85: history = SESSIONS.get(id); if not history: history = [system]
GetHistory(p, sid) ==
    IF Falsy(heap, SESSIONS[sid])
    THEN LET r == NewRef(heap) IN
         /\ history' = [history EXCEPT ![p] = r]
         /\ heap' = [heap EXCEPT ![r] = <<SystemMsg(sid)>>]
    ELSE /\ history' = [history EXCEPT ![p] = SESSIONS[sid]]
         /\ heap' = heap

ChatGet(p) ==
    /\ pc[p] = "idle"
    /\ Len(log) + Cardinality(InFlight) < MaxRequests
    /\ \E sid \in SessionIds, text \in Texts :
          /\ inp' = [inp EXCEPT ![p] = [session_id |-> sid, text |-> text]]
          /\ GetHistory(p, sid)
          /\ base' = [base EXCEPT ![p] = Stored(sid)]
    /\ pc' = [pc EXCEPT ![p] = "append_user"]
    /\ messages' = [messages EXCEPT ![p] = <<>>]
    /\ UNCHANGED <<SESSIONS, reply, log>>

\* line 87: history.append(user message), in place on the list object
ChatAppendUser(p) ==
    /\ pc[p] = "append_user"
    /\ heap' = [heap EXCEPT ![history[p]] =
                   Append(@, UserMsg(inp[p].text, inp[p].session_id))]
    /\ pc' = [pc EXCEPT ![p] = "create"]
    /\ UNCHANGED <<SESSIONS, inp, history, messages, reply, base, log>>

\* lines 89-94: the argument messages=history[-(2*MAX_TURNS+1):] is evaluated
\* and the request goes out to the chat-completion service
ChatCreate(p) ==
    /\ pc[p] = "create"
    /\ messages' = [messages EXCEPT ![p] = LastN(heap[history[p]], Window)]
    /\ pc' = [pc EXCEPT ![p] = "await"]
    /\ UNCHANGED <<SESSIONS, heap, inp, history, reply, base, log>>

\* lines 89-95: the service answers and reply = resp.choices[0].message.content
ChatReply(p) ==
    /\ pc[p] = "await"
    /\ \E r \in Replies : reply' = [reply EXCEPT ![p] = r]
    /\ pc' = [pc EXCEPT ![p] = "append_assistant"]
    /\ UNCHANGED <<SESSIONS, heap, inp, history, messages, base, log>>

\* the record of a finished request: its arguments, the HTTP status and body it
\* returned (line 101 or line 103) and the list SESSIONS held when it started
Done(p, status) ==
    [session_id |-> inp[p].session_id, text |-> inp[p].text, status |-> status,
     reply |-> reply[p], base |-> base[p]]

\* lines 89-95 raise (network error, quota, malformed response); lines 102-103
\* turn the exception into a 500 response and the local `history` goes away
ChatFail(p) ==
    /\ pc[p] = "await"
    /\ history' = [history EXCEPT ![p] = None]
    /\ heap' = Collect(heap, SESSIONS, history')
    /\ log' = Append(log, Done(p, 500))
    /\ pc' = [pc EXCEPT ![p] = "idle"]
    /\ inp' = [inp EXCEPT ![p] = NoInp]
    /\ messages' = [messages EXCEPT ![p] = <<>>]
    /\ base' = [base EXCEPT ![p] = <<>>]
    /\ reply' = [reply EXCEPT ![p] = ""]
    /\ UNCHANGED SESSIONS

\* line 98: history.append(assistant message), in place
ChatAppendAssistant(p) ==
    /\ pc[p] = "append_assistant"
    /\ heap' = [heap EXCEPT ![history[p]] =
                   Append(@, AssistantMsg(reply[p], inp[p].session_id))]
    /\ pc' = [pc EXCEPT ![p] = "store"]
    /\ UNCHANGED <<SESSIONS, inp, history, messages, reply, base, log>>

\* line 99: the truncated copy that is stored
Truncated(l) == LastN(l, Window)

\* lines 99-101: SESSIONS[id] = history[-(2*MAX_TURNS+1):]; return {"reply": reply}
ChatStore(p) ==
    /\ pc[p] = "store"
    /\ LET r == NewRef(heap)
           h1 == [heap EXCEPT ![r] = Truncated(heap[history[p]])]
       IN  /\ SESSIONS' = [SESSIONS EXCEPT ![inp[p].session_id] = r]
           /\ history' = [history EXCEPT ![p] = None]
           /\ heap' = Collect(h1, SESSIONS', history')
    /\ log' = Append(log, Done(p, 200))
    /\ pc' = [pc EXCEPT ![p] = "idle"]
    /\ inp' = [inp EXCEPT ![p] = NoInp]
    /\ messages' = [messages EXCEPT ![p] = <<>>]
    /\ base' = [base EXCEPT ![p] = <<>>]
    /\ reply' = [reply EXCEPT ![p] = ""]

Step(p) ==
    \/ ChatAppendUser(p)
    \/ ChatCreate(p)
    \/ ChatReply(p)
    \/ ChatFail(p)
    \/ ChatAppendAssistant(p)
    \/ ChatStore(p)

\* requests served by the thread pool, interleaving between statements
Next == \E p \in Procs : ChatGet(p) \/ Step(p)

Spec == Init /\ [][Next]_vars

\* one request at a time: a request is accepted only when none is in flight
NextSeq == \E p \in Procs : (Quiescent /\ ChatGet(p)) \/ Step(p)

SpecSeq == Init /\ [][NextSeq]_vars

TypeOK ==
    /\ \A s \in SessionIds : SESSIONS[s] \in Refs \cup {None}
    /\ \A p \in Procs : history[p] \in Refs \cup {None}
    /\ \A s \in SessionIds : SESSIONS[s] # None => heap[SESSIONS[s]] # Free
    /\ \A p \in Procs : history[p] # None => heap[history[p]] # Free
    /\ Len(log) <= MaxRequests

\* ---- derived views of the request log -----------------------------------
\* the finished requests of session s that returned 200, in completion order
OkLog(s) == SelectSeq(log, LAMBDA e : e.session_id = s /\ e.status = 200)

\* the number of finished requests of session s that returned 500
Fails(s) == Len(SelectSeq(log, LAMBDA e : e.session_id = s /\ e.status = 500))

LastDone == log[Len(log)]

Min(a, b) == IF a <= b THEN a ELSE b

\* how many times the user message (t, s) occurs in list l
UserCount(l, t, s) == Cardinality({i \in DOMAIN l : l[i] = UserMsg(t, s)})

\* how many of the given finished turns carry text t
TurnCount(turns, t) == Cardinality({i \in DOMAIN turns : turns[i].text = t})

RECURSIVE Pairs(_, _)
\* the user/assistant pairs of a sequence of finished turns, in order
Pairs(turns, s) ==
    IF turns = <<>> THEN <<>>
    ELSE <<UserMsg(Head(turns).text, s), AssistantMsg(Head(turns).reply, s)>>
         \o Pairs(Tail(turns), s)

\* the history the specification prescribes after the given successful turns
Expected(s) == <<SystemMsg(s)>> \o Pairs(LastN(OkLog(s), MAX_TURNS), s)

\* what one successful request (t, r) stores when it finds list H in the store
OneSuccess(H, s, t, r) ==
    Truncated((IF H = <<>> THEN <<SystemMsg(s)>> ELSE H)
              \o <<UserMsg(t, s), AssistantMsg(r, s)>>)

\* ---- claims -------------------------------------------------------------
\* C1: every non-empty history stored in SESSIONS has the system message at
\* index 0, whatever the sequence of successful and failed turns.
C1_SystemFirst ==
    \A s \in SessionIds : Stored(s) # <<>> => Stored(s)[1].role = "system"

\* C2: after a failed /chat request the history stored for its session is
\* identical to the one stored before the request (requests one at a time).
C2_FailureLeavesStore ==
    (Quiescent /\ Len(log) > 0 /\ LastDone.status = 500)
        => Stored(LastDone.session_id) = LastDone.base

\* C3: when the requests of a session all succeeded and fit the window, every
\* user turn of every finished request is in the stored history once all
\* requests have completed, however the requests interleaved.
C3_NoLostTurn ==
    Quiescent =>
        \A s \in SessionIds :
            (Fails(s) = 0 /\ Len(OkLog(s)) <= MAX_TURNS) =>
                \A t \in Texts : UserCount(Stored(s), t, s) >= TurnCount(OkLog(s), t)

\* C4: in every reachable state, also in the middle of a request, no list held
\* in SESSIONS is longer than 2*MAX_TURNS + 1.
C4_WindowBound ==
    \A s \in SessionIds : Len(Stored(s)) <= Window

\* C5: the message list sent to the chat-completion service always has the
\* system message as its first element.
C5_SentHasSystem ==
    \A p \in Procs :
        pc[p] \in {"await", "append_assistant", "store"} =>
            /\ messages[p] # <<>>
            /\ messages[p][1].role = "system"

\* C6: after N successful sequential turns on a session (none failed), the
\* stored history is the system message followed by the most recent
\* min(N, MAX_TURNS) user/assistant pairs in call order.
C6_RecentPairs ==
    Quiescent =>
        \A s \in SessionIds :
            (Fails(s) = 0 /\ Len(OkLog(s)) >= 1) => Stored(s) = Expected(s)

\* C7: after N >= 1 successful sequential turns on a session, with any number
\* of failed turns among them, the stored history has length
\* min(2N+1, 2*MAX_TURNS+1).
C7_Length ==
    Quiescent =>
        \A s \in SessionIds :
            Len(OkLog(s)) >= 1 =>
                Len(Stored(s)) = Min(2 * Len(OkLog(s)) + 1, Window)

\* C8: a failed request followed by a successful request with the same
\* arguments leaves the history that the successful request alone would have
\* left on the history H stored before the failed one, with the user message
\* of the retried turn appended once.
C8_RetrySafe ==
    (/\ Quiescent
     /\ Len(log) >= 2
     /\ LastDone.status = 200
     /\ log[Len(log) - 1].status = 500
     /\ log[Len(log) - 1].session_id = LastDone.session_id
     /\ log[Len(log) - 1].text = LastDone.text)
        => Stored(LastDone.session_id) =
               OneSuccess(log[Len(log) - 1].base, LastDone.session_id,
                          LastDone.text, LastDone.reply)

\* the request of p found no history for its session in the store
FoundNone(p) == pc[p] # "idle" /\ base[p] = <<>>

\* C9: a request for a session absent from the store never ends in a not-found
\* outcome: its history starts as exactly the system message, it returns 200
\* with the reply or 500, and when it returns 200 the history it stores is
\* exactly [system, user:text, assistant:reply].
C9_CreatedOnDemand ==
    /\ [](\A p \in Procs :
             (FoundNone(p) /\ pc[p] = "append_user") =>
                 heap[history[p]] = <<SystemMsg(inp[p].session_id)>>)
    /\ [][\A p \in Procs :
             (FoundNone(p) /\ pc'[p] = "idle") =>
                 /\ Len(log') = Len(log) + 1
                 /\ log'[Len(log')].status \in {200, 500}
                 /\ (pc[p] = "store") <=> (log'[Len(log')].status = 200)
                 /\ pc[p] = "store" =>
                       /\ log'[Len(log')].reply = reply[p]
                       /\ reply[p] \in Replies
                       /\ SESSIONS'[inp[p].session_id] # None
                       /\ heap'[SESSIONS'[inp[p].session_id]] =
                              <<SystemMsg(inp[p].session_id),
                                UserMsg(inp[p].text, inp[p].session_id),
                                AssistantMsg(reply[p], inp[p].session_id)>>]_vars

\* a first request of a session has returned 200 while another request for the
\* same session, which also found no history, is still in flight
C9_Witness ==
    /\ Len(log) > 0
    /\ LastDone.status = 200
    /\ LastDone.base = <<>>
    /\ Stored(LastDone.session_id) =
           <<SystemMsg(LastDone.session_id),
             UserMsg(LastDone.text, LastDone.session_id),
             AssistantMsg(LastDone.reply, LastDone.session_id)>>
    /\ \E p \in Procs : FoundNone(p) /\ inp[p].session_id = LastDone.session_id

\* the session a step of request p works for
SessionOf(p) == IF pc[p] = "idle" THEN inp'[p].session_id ELSE inp[p].session_id

\* C10: a step of a request for session A leaves the stored history of every
\* other session unchanged, and the message list it sends to the chat service
\* holds only messages created under A.
C10_OtherSessionsUntouched ==
    [][\A p \in Procs :
          pc'[p] # pc[p] =>
              /\ \A s \in SessionIds :
                    s # SessionOf(p) =>
                        /\ (SESSIONS'[s] = None) <=> (SESSIONS[s] = None)
                        /\ SESSIONS[s] # None =>
                              heap'[SESSIONS'[s]] = heap[SESSIONS[s]]
              /\ pc'[p] = "await" =>
                    \A i \in DOMAIN messages'[p] :
                        messages'[p][i].by = inp[p].session_id]_vars

\* two requests for different sessions are in flight, each past its user
\* append, one of them on a history that is in the store
C10_Witness ==
    \E p, q \in Procs :
        /\ pc[p] = "store"
        /\ pc[q] = "await"
        /\ inp[p].session_id # inp[q].session_id
        /\ Stored(inp[q].session_id) # <<>>
        /\ history[q] = SESSIONS[inp[q].session_id]
====
